---- MODULE Spec2Model ----
(***************************************************************************)
(* PyBank.py: the trading account of PyAlgosim (Python 2).                 *)
(*                                                                         *)
(* One Account object is modelled.  Prices, quantities, the fee and the    *)
(* funds are Python ints.  Two values of the program become floats and are *)
(* modelled as exact fractions n/d (binary rounding is not modelled):      *)
(*   - "bought_p" after a merging buy (line 113), where the division is    *)
(*     Python 2's floor division as long as both operands are ints;        *)
(*   - "points" of a percentage trailing stop (line 199).                  *)
(* quit() and an uncaught exception end the process: err records the kind  *)
(* of error and no operation runs once it is set.  A driver makes at most  *)
(* MaxCalls calls; last is the call it made last, with what it returned    *)
(* and the funds, the transactions and the held quantity of its ticker     *)
(* before the call.                                                        *)
(***************************************************************************)
EXTENDS Integers, Sequences, FiniteSets, TLC

\* ---------------------------------------------------------------- bounds
Tickers == {"A", "B"}
MaxPrice == 2
MaxQty == 2
MaxCalls == 4
\* Account(funds=InitialFunds, transaction_fee=TRANSACTION_FEE)
InitialFunds == 7
TRANSACTION_FEE == 2

Prices == 1 .. MaxPrice
\* quantities a caller may pass: share counts are non-negative numbers, and
\* the code checks no sign
Quantities == 0 .. MaxQty
\* "points" a caller may pass to trailing_stop
PointsGiven == {0, 60}
\* the price tables a caller may pass to update: any dict ticker -> price
Snapshots == UNION {[S -> Prices] : S \in SUBSET Tickers}

VARIABLES account, err, last, fills, calls
vars == <<account, err, last, fills, calls>>

\* ------------------------------------------------------- dicts and numbers
EmptyDict == [k \in {} |-> 0]
Put(d, k, v) == [x \in DOMAIN d \cup {k} |-> IF x = k THEN v ELSE d[x]]
Del(d, k) == [x \in DOMAIN d \ {k} |-> d[x]]

Abs(a) == IF a < 0 THEN 0 - a ELSE a

RECURSIVE GCD(_, _)
GCD(a, b) == IF b = 0 THEN a ELSE GCD(b, a % b)

\* Python's int / int (floor division), b # 0
FloorDiv(a, b) == IF b > 0 THEN a \div b ELSE (0 - a) \div (0 - b)

\* the fraction n/d in lowest terms with d > 0 (d # 0)
Frac(n, d) ==
    LET g == GCD(Abs(n), Abs(d))
        s == IF d < 0 THEN 0 - 1 ELSE 1
    IN  [n |-> (s * n) \div g, d |-> (s * d) \div g]

\* a Python number as stored in "bought_p": value n/d, float or int
IntNum(i) == [n |-> i, d |-> 1, float |-> FALSE]
FloatNum(n, d) == [n |-> Frac(n, d).n, d |-> Frac(n, d).d, float |-> TRUE]

\* ------------------------------------------------------------ Account
\* Account.__init__
NewAccount(funds, transaction_fee) ==
    [funds |-> funds,
     initial_funds |-> funds,
     transactions |-> 0,
     TRANSACTION_FEE |-> transaction_fee,
     latest_prices |-> EmptyDict,
     original_prices |-> EmptyDict,
     stocks_owned |-> EmptyDict]

Ok(self) == [acct |-> self, err |-> "none"]
Fail(self, e) == [acct |-> self, err |-> e]

\* line 113: float((old_amount + new_amount) / (quantity_owned + quantity))
average_bought_p(bought_p, owned, quantity, price) ==
    IF bought_p.float
    THEN \* old_amount is a float: true division
         FloatNum(owned * bought_p.n + quantity * price * bought_p.d,
                  bought_p.d * (owned + quantity))
    ELSE \* all operands are ints: Python 2 floor division, then float()
         FloatNum(FloorDiv(owned * bought_p.n + quantity * price, owned + quantity), 1)

\* a buy that forgets the fee
buy_cost_without_fee(self, quantity, price) == quantity * price

\* lines 101-102: (quantity * price) + self.TRANSACTION_FEE
buy_cost(self, quantity, price) == (quantity * price) + self.TRANSACTION_FEE

\* line 101: the funds check of buy_stock
funds_available(self, cost) == self.funds - cost >= 0

\* Account.buy_stock
buy_stock(self, ticker, quantity) ==
    IF ticker \notin DOMAIN self.latest_prices
    THEN Fail(self, "UnknownTicker")              \* KeyError -> bare except, quit()
    ELSE
    LET price == self.latest_prices[ticker]
        cost == buy_cost(self, quantity, price)
    IN  IF funds_available(self, cost)
        THEN LET paid == [self EXCEPT !.funds = @ - cost, !.transactions = @ + 1]
             IN  IF ticker \notin DOMAIN self.stocks_owned
                 THEN Ok([paid EXCEPT !.stocks_owned =
                            Put(@, ticker, [quantity |-> quantity,
                                            bought_p |-> IntNum(price),
                                            current_p |-> price,
                                            options |-> EmptyDict])])
                 ELSE LET h == self.stocks_owned[ticker]
                      IN  IF h.quantity + quantity = 0
                          THEN \* ZeroDivisionError -> bare except, quit():
                               \* funds and transactions are already changed
                               Fail(paid, "UnknownTicker")
                          ELSE Ok([paid EXCEPT
                                 !.stocks_owned[ticker].quantity = @ + quantity,
                                 !.stocks_owned[ticker].bought_p =
                                     average_bought_p(h.bought_p, h.quantity,
                                                      quantity, price)])
        ELSE Fail(self, "InsufficientFunds")      \* ValueError, quit()

\* a sell that forgets the fee
sale_proceeds_without_fee(self, quantity, current_price) == quantity * current_price

\* a sale that charges the fee on every share
sale_proceeds_fee_per_share(self, quantity, current_price) ==
    quantity * (current_price - self.TRANSACTION_FEE)

\* line 145: (quantity * current_price) - self.TRANSACTION_FEE
sale_proceeds(self, quantity, current_price) ==
    (quantity * current_price) - self.TRANSACTION_FEE

\* a sell that also resets the average cost to the selling price
sold_holding_repriced(h, quantity) ==
    [h EXCEPT !.quantity = @ - quantity, !.bought_p = IntNum(h.current_p)]

\* line 146: stocks_owned[ticker]["quantity"] -= quantity
sold_holding(h, quantity) == [h EXCEPT !.quantity = @ - quantity]

\* Account.sell_stock, quantity a number
sell_stock(self, ticker, quantity) ==
    IF ticker \notin DOMAIN self.stocks_owned
    THEN Fail(self, "NotOwned")                   \* KeyError, quit()
    ELSE
    LET h == self.stocks_owned[ticker]
        current_price == h.current_p
    IN  IF h.quantity - quantity >= 0
        THEN LET sold == [self EXCEPT
                            !.funds = @ + sale_proceeds(self, quantity, current_price),
                            !.stocks_owned[ticker] = sold_holding(@, quantity),
                            !.transactions = @ + 1]
             IN  IF h.quantity - quantity = 0
                 THEN Ok([sold EXCEPT !.stocks_owned = Del(@, ticker)])
                 ELSE Ok(sold)
        ELSE Fail(self, "OversellAttempt")        \* ValueError, quit()

\* Account.sell_stock(ticker, "all")
sell_stock_all(self, ticker) ==
    IF ticker \notin DOMAIN self.stocks_owned
    THEN Fail(self, "NotOwned")
    ELSE sell_stock(self, ticker, self.stocks_owned[ticker].quantity)

\* a limit that ignores the percentage flag
bottom_limit_absolute(order) ==
    [n |-> order.highest * order.points.d - order.points.n, d |-> order.points.d]

\* highest - highest*points, or highest - points, as a fraction (lines 21-24)
bottom_limit(order) ==
    IF order.percentage = TRUE
    THEN Frac(order.highest * order.points.d - order.highest * order.points.n,
              order.points.d)
    ELSE Frac(order.highest * order.points.d - order.points.n, order.points.d)

\* int <= fraction
LeqFrac(i, f) == i * f.d <= f.n

\* the comparison of line 18 turned around
price_has_gone_up(order, current_price) == order.highest < current_price

\* line 18: "if price has gone down"
price_has_gone_down(order, current_price) == order.highest > current_price

\* helper update_trailing_stop(account, ticker)
update_trailing_stop(self, ticker) ==
    LET current_price == self.stocks_owned[ticker].current_p
        order == self.stocks_owned[ticker].options["trailing_stop"]
    IN  IF price_has_gone_down(order, current_price)
        THEN IF LeqFrac(current_price, bottom_limit(order))
             THEN LET r == sell_stock(self, ticker, order.quantity)
                  IN  IF r.err # "none"
                      THEN r
                      ELSE IF ticker \in DOMAIN r.acct.stocks_owned
                           THEN Ok([r.acct EXCEPT !.stocks_owned[ticker].options =
                                        Del(@, "trailing_stop")])
                           ELSE r
             ELSE Ok(self)
        ELSE Ok([self EXCEPT
                   !.stocks_owned[ticker].options["trailing_stop"].highest = current_price])

\* a loop that visits no holding
update_loop_skipping(self, items, seen) ==
    [acct |-> self, err |-> "none", evaluated |-> seen]

\* the loop of Account.update (lines 88-94) over items, the list that
\* stocks_owned.items() returned; seen collects the orders evaluated
RECURSIVE update_loop(_, _, _)
update_loop(self, items, seen) ==
    IF items = <<>>
    THEN [acct |-> self, err |-> "none", evaluated |-> seen]
    ELSE
    LET ticker == Head(items)
    IN  IF ticker \in DOMAIN self.latest_prices
        THEN LET priced == [self EXCEPT !.stocks_owned[ticker].current_p =
                                            self.latest_prices[ticker]]
             IN  IF "trailing_stop" \in DOMAIN priced.stocks_owned[ticker].options
                 THEN LET r == update_trailing_stop(priced, ticker)
                      IN  IF r.err # "none"
                          THEN [acct |-> r.acct, err |-> r.err,
                                evaluated |-> seen \cup {ticker}]
                          ELSE update_loop(r.acct, Tail(items), seen \cup {ticker})
                 ELSE update_loop(priced, Tail(items), seen)
        ELSE update_loop(self, Tail(items), seen)

\* an update that records the price of its ticker every time
record_latest(original_prices, latest_prices, ticker) ==
    IF ticker \in DOMAIN latest_prices
    THEN Put(original_prices, ticker, latest_prices[ticker])
    ELSE original_prices

\* lines 83-84: the first price seen for ticker is kept
record_original(original_prices, latest_prices, ticker) ==
    IF ticker \notin DOMAIN original_prices
    THEN Put(original_prices, ticker, latest_prices[ticker])
    ELSE original_prices

\* an update that merges the price table into the prices known before
merged_prices(known, latest_prices) ==
    [t \in DOMAIN known \cup DOMAIN latest_prices |->
       IF t \in DOMAIN latest_prices THEN latest_prices[t] ELSE known[t]]

\* line 86: self.latest_prices = latest_prices
replaced_prices(known, latest_prices) == latest_prices

\* Account.update; items is the order in which the dict yields its keys
update(self, latest_prices, ticker, items) ==
    IF ticker \notin DOMAIN self.original_prices /\ ticker \notin DOMAIN latest_prices
    THEN [acct |-> self, err |-> "KeyError", evaluated |-> {}]   \* line 84, uncaught
    ELSE update_loop(
            [self EXCEPT
               !.original_prices = record_original(@, latest_prices, ticker),
               !.latest_prices = replaced_prices(@, latest_prices)],
            items, {})

\* a funds check that forgets the fee
can_place_order_without_fee(self) == self.funds >= 0

\* line 177: the account can pay the fee of the later sale
can_place_order(self) == self.funds - self.TRANSACTION_FEE >= 0

\* lines 181-183: the order of a holding h that has none
new_order(h, quantity, points, percentage) ==
    [percentage |-> percentage,
     points |-> Frac(points, 1),
     highest |-> h.current_p,
     quantity |-> quantity]

\* a merge that replaces the quantity
merged_order_replacing(order, quantity, points) ==
    [order EXCEPT !.quantity = quantity, !.points = Frac(points, 1)]

\* lines 188-189: the new order merged into the existing one
merged_order(order, quantity, points) ==
    [order EXCEPT !.quantity = @ + quantity, !.points = Frac(points, 1)]

\* Account.trailing_stop
trailing_stop(self, ticker, quantity, points, percentage) ==
    IF can_place_order(self)
    THEN IF ticker \notin DOMAIN self.stocks_owned
         THEN Fail(self, "KeyError")              \* line 180, uncaught
         ELSE
         LET h == self.stocks_owned[ticker]
             placed ==
               IF "trailing_stop" \notin DOMAIN h.options
               THEN [self EXCEPT !.stocks_owned[ticker].options =
                       Put(EmptyDict, "trailing_stop",
                           new_order(h, quantity, points, percentage))]
               ELSE [self EXCEPT
                       !.stocks_owned[ticker].options["trailing_stop"] =
                            merged_order(@, quantity, points)]
         IN  IF placed.stocks_owned[ticker].options["trailing_stop"].quantity > h.quantity
             THEN Fail(placed, "OrderExceedsHoldings")   \* ValueError, quit()
             ELSE IF percentage
                  THEN Ok([placed EXCEPT
                             !.stocks_owned[ticker].options["trailing_stop"].points =
                                  Frac(points, 100)])
                  ELSE Ok(placed)
    ELSE Fail(self, "InsufficientFunds")          \* IndexError, quit()

\* a liquidation that charges no fee
liquidation_proceeds_without_fee(self, h) == h.quantity * h.current_p

\* lines 222-223: quantity * current_p - self.TRANSACTION_FEE
liquidation_proceeds(self, h) ==
    (h.quantity * h.current_p) - self.TRANSACTION_FEE

\* Account.sell_all over items, the list that copy.items() returned
RECURSIVE sell_all(_, _)
sell_all(self, items) ==
    IF items = <<>>
    THEN self
    ELSE LET ticker == Head(items)
             h == self.stocks_owned[ticker]
         IN  sell_all([self EXCEPT
                         !.funds = @ + liquidation_proceeds(self, h),
                         !.transactions = @ + 1,
                         !.stocks_owned = Del(@, ticker)],
                      Tail(items))

\* lines 250-254: total_price of Account.report
RECURSIVE SumPrices(_, _)
SumPrices(prices, S) ==
    IF S = {} THEN 0
    ELSE LET t == CHOOSE x \in S : TRUE
         IN  prices[t] + SumPrices(prices, S \ {t})

\* Account.value
RECURSIVE SumValue(_, _)
SumValue(stocks, S) ==
    IF S = {} THEN 0
    ELSE LET t == CHOOSE x \in S : TRUE
         IN  stocks[t].quantity * stocks[t].current_p + SumValue(stocks, S \ {t})

\* a value that counts one share of each holding
value_per_holding(self) ==
    SumPrices([t \in DOMAIN self.stocks_owned |-> self.stocks_owned[t].current_p],
              DOMAIN self.stocks_owned)

value(self) == SumValue(self.stocks_owned, DOMAIN self.stocks_owned)

\* lines 236-237: the profit that Account.report prints
report_profit(self) == (self.funds + value(self)) - self.initial_funds

\* the exceptions Account.report can raise (lines 238, 255, 257, 263); it
\* changes nothing
report_error(self, verbose) ==
    IF self.initial_funds = 0
    THEN "ZeroDivisionError"
    ELSE IF ~(DOMAIN self.original_prices \subseteq DOMAIN self.latest_prices)
    THEN "KeyError"
    ELSE IF SumPrices(self.original_prices, DOMAIN self.original_prices) = 0
    THEN "ZeroDivisionError"
    ELSE IF verbose /\ \E t \in DOMAIN self.stocks_owned :
                          self.stocks_owned[t].bought_p.n = 0
    THEN "ZeroDivisionError"
    ELSE "none"

\* ------------------------------------------------------------ the calls
\* the orders in which a dict with keys S can yield them
RECURSIVE Orders(_)
Orders(S) ==
    IF S = {} THEN {<<>>}
    ELSE UNION {{<<t>> \o rest : rest \in Orders(S \ {t})} : t \in S}

HeldQuantity(self, ticker) ==
    IF ticker \in DOMAIN self.stocks_owned
    THEN self.stocks_owned[ticker].quantity
    ELSE 0

NoCall == [op |-> "init", ticker |-> "", quantity |-> 0, all |-> FALSE,
           points |-> 0, percentage |-> FALSE, latest_prices |-> EmptyDict,
           evaluated |-> {}, result |-> 0,
           before |-> [funds |-> 0, transactions |-> 0, quantity |-> 0]]

\* the call op on ticker, made in the state self
Call(self, op, ticker) ==
    [NoCall EXCEPT !.op = op, !.ticker = ticker,
                   !.before = [funds |-> self.funds,
                               transactions |-> self.transactions,
                               quantity |-> HeldQuantity(self, ticker)]]

\* bookkeeping for the fills of each holding since it was created:
\* q = sum of bought quantities, qp = sum of quantity*price
Bought(f, held, ticker, quantity, price) ==
    IF ticker \in held /\ ticker \in DOMAIN f
    THEN [f EXCEPT ![ticker] = [q |-> @.q + quantity, qp |-> @.qp + quantity * price]]
    ELSE Put(f, ticker, [q |-> quantity, qp |-> quantity * price])

StillHeld(f, self) == [t \in DOMAIN f \cap DOMAIN self.stocks_owned |-> f[t]]

Init ==
    /\ account = NewAccount(InitialFunds, TRANSACTION_FEE)
    /\ err = "none"
    /\ last = NoCall
    /\ fills = EmptyDict
    /\ calls = 0

\* the process is alive and the driver makes one more call
Running == err = "none" /\ calls < MaxCalls /\ calls' = calls + 1

Update ==
    /\ Running
    /\ \E latest_prices \in Snapshots, ticker \in Tickers,
          items \in Orders(DOMAIN account.stocks_owned) :
         LET r == update(account, latest_prices, ticker, items)
         IN  /\ account' = r.acct
             /\ err' = r.err
             /\ last' = [Call(account, "update", ticker) EXCEPT
                                       !.latest_prices = latest_prices,
                                       !.evaluated = r.evaluated]
             /\ fills' = StillHeld(fills, r.acct)

Buy ==
    /\ Running
    /\ \E ticker \in Tickers, quantity \in Quantities :
         LET r == buy_stock(account, ticker, quantity)
         IN  /\ account' = r.acct
             /\ err' = r.err
             /\ last' = [Call(account, "buy", ticker) EXCEPT !.quantity = quantity]
             /\ fills' = IF r.err = "none"
                         THEN Bought(fills, DOMAIN account.stocks_owned, ticker,
                                     quantity, account.latest_prices[ticker])
                         ELSE fills

Sell ==
    /\ Running
    /\ \E ticker \in Tickers, quantity \in Quantities :
         LET r == sell_stock(account, ticker, quantity)
         IN  /\ account' = r.acct
             /\ err' = r.err
             /\ last' = [Call(account, "sell", ticker) EXCEPT !.quantity = quantity]
             /\ fills' = StillHeld(fills, r.acct)

SellTicker ==
    /\ Running
    /\ \E ticker \in Tickers :
         LET r == sell_stock_all(account, ticker)
         IN  /\ account' = r.acct
             /\ err' = r.err
             /\ last' = [Call(account, "sell", ticker) EXCEPT !.all = TRUE]
             /\ fills' = StillHeld(fills, r.acct)

TrailingStop ==
    /\ Running
    /\ \E ticker \in Tickers, quantity \in Quantities, points \in PointsGiven,
          percentage \in BOOLEAN :
         LET r == trailing_stop(account, ticker, quantity, points, percentage)
         IN  /\ account' = r.acct
             /\ err' = r.err
             /\ last' = [Call(account, "trailing_stop", ticker) EXCEPT
                                       !.quantity = quantity, !.points = points,
                                       !.percentage = percentage]
             /\ UNCHANGED fills

SellAll ==
    /\ Running
    /\ \E items \in Orders(DOMAIN account.stocks_owned) :
         /\ account' = sell_all(account, items)
         /\ UNCHANGED err
         /\ last' = Call(account, "sell_all", "")
         /\ fills' = EmptyDict

Report ==
    /\ Running
    /\ \E verbose \in BOOLEAN :
         /\ UNCHANGED <<account, fills>>
         /\ err' = report_error(account, verbose)
         /\ last' = [Call(account, "report", "") EXCEPT
                        !.all = verbose,
                        !.result = IF report_error(account, verbose) = "none"
                                   THEN report_profit(account)
                                   ELSE 0]

Value ==
    /\ Running
    /\ UNCHANGED <<account, err, fills>>
    /\ last' = [Call(account, "value", "") EXCEPT !.result = value(account)]

Next ==
    Update \/ Buy \/ Sell \/ SellTicker \/ TrailingStop \/ SellAll \/ Report \/ Value

Spec == Init /\ [][Next]_vars

\* ------------------------------------------------------------ the claims
Held(self) == DOMAIN self.stocks_owned

HasOrder(self, t) ==
    t \in DOMAIN self.stocks_owned /\ "trailing_stop" \in DOMAIN self.stocks_owned[t].options

Order(self, t) == self.stocks_owned[t].options["trailing_stop"]

\* the stop threshold as the specification words it: price p is at or below
\* highest - distance, or highest - highest*distance for a percentage order
AtOrBelowThreshold(o, p) ==
    IF o.percentage
    THEN p * o.points.d <= o.highest * o.points.d - o.highest * o.points.n
    ELSE p * o.points.d <= o.highest * o.points.d - o.points.n

\* C1: every entry of holdings has quantity > 0 after any sequence of calls
C1_HoldingsPositive ==
    err = "none" => \A t \in Held(account) : account.stocks_owned[t].quantity > 0

\* C2: a trailing-stop order never covers more shares than its holding has
C2_OrderWithinHolding ==
    err = "none" =>
        \A t \in Held(account) :
            HasOrder(account, t) =>
                Order(account, t).quantity <= account.stocks_owned[t].quantity

\* C3: a buy succeeds only when funds >= quantity*price + fee, with price the
\* latest price of the ticker; it then takes exactly quantity*price + fee from
\* the funds, adds one transaction and leaves the funds >= 0
C3_BuyChargesExactly ==
    [][(last'.op = "buy" /\ err' = "none") =>
         /\ last'.ticker \in DOMAIN account.latest_prices
         /\ LET cost == last'.quantity * account.latest_prices[last'.ticker]
                        + account.TRANSACTION_FEE
            IN  /\ account.funds >= cost
                /\ account'.funds = account.funds - cost
                /\ account'.transactions = account.transactions + 1
                /\ account'.funds >= 0]_vars

C3_Witness ==
    /\ last.op = "buy" /\ err = "none" /\ last.quantity > 0
    /\ account.funds < last.before.funds
    /\ account.funds = 0

\* C4: a buy, sell or trailing_stop that fails with anything but
\* OrderExceedsHoldings leaves the account as it was
C4_FailureKeepsAccount ==
    [][(/\ last'.op \in {"buy", "sell", "trailing_stop"}
        /\ err' \notin {"none", "OrderExceedsHoldings"}) =>
           account' = account]_vars

\* C5: buy(t, q) directly followed by sell(t, q) succeeds, leaves the funds at
\* the funds before the buy minus twice the fee, the held quantity of t as
\* before the buy, and adds two transactions
C5_RoundTrip ==
    [][(/\ last.op = "buy" /\ err = "none"
        /\ last'.op = "sell" /\ ~last'.all
        /\ last'.ticker = last.ticker /\ last'.quantity = last.quantity) =>
           /\ err' = "none"
           /\ account'.funds = last.before.funds - 2 * account.TRANSACTION_FEE
           /\ HeldQuantity(account', last.ticker) = last.before.quantity
           /\ account'.transactions = last.before.transactions + 2]_vars

\* update, buy(t, q), sell(t, q): the only three calls that end so
C5_Witness ==
    /\ calls = 3 /\ last.op = "sell" /\ ~last.all /\ err = "none"
    /\ last.quantity > 0
    /\ account.transactions = 2
    /\ account.funds = InitialFunds - 2 * TRANSACTION_FEE

\* C6: the average cost of a holding is the volume-weighted mean of its
\* fills: average_cost * (sum of quantities) = sum of quantity*price
C6_AverageIsWeightedMean ==
    err = "none" =>
        \A t \in Held(account) \cap DOMAIN fills :
            account.stocks_owned[t].bought_p.n * fills[t].q
                = fills[t].qp * account.stocks_owned[t].bought_p.d

\* C7: while an order exists, no call lowers its highest price seen
C7_WatermarkMonotone ==
    [][\A t \in Tickers :
         (HasOrder(account, t) /\ HasOrder(account', t)) =>
             Order(account', t).highest >= Order(account, t).highest]_vars

\* update, buy at 1, trailing_stop, update to MaxPrice: the watermark rose
C7_Witness ==
    /\ calls = 4 /\ last.op = "update" /\ err = "none"
    /\ \E t \in last.evaluated :
          /\ HasOrder(account, t)
          /\ Order(account, t).quantity > 0
          /\ account.stocks_owned[t].bought_p = IntNum(1)
          /\ Order(account, t).highest = MaxPrice

\* the orders of self, of one share or more, that the claim expects an
\* update to prices to execute
ExpectedTriggers(self, prices) ==
    {t \in Held(self) \cap DOMAIN prices :
        /\ HasOrder(self, t)
        /\ Order(self, t).quantity > 0
        /\ prices[t] <= Order(self, t).highest
        /\ AtOrBelowThreshold(Order(self, t), prices[t])}

RECURSIVE ExpectedProceeds(_, _, _)
ExpectedProceeds(self, prices, S) ==
    IF S = {} THEN 0
    ELSE LET t == CHOOSE x \in S : TRUE
         IN  Order(self, t).quantity * prices[t] - self.TRANSACTION_FEE
             + ExpectedProceeds(self, prices, S \ {t})

\* C8: an update sells, at the new price, the quantity of every order whose
\* new price is <= highest price seen and <= threshold (equality included),
\* and removes the order
C8_TriggerSells ==
    [][(last'.op = "update" /\ err' # "KeyError") =>
         LET T == ExpectedTriggers(account, last'.latest_prices)
         IN  /\ \A t \in T :
                   /\ ~HasOrder(account', t)
                   /\ HeldQuantity(account', t)
                        = account.stocks_owned[t].quantity - Order(account, t).quantity
             /\ account'.funds
                  = account.funds + ExpectedProceeds(account, last'.latest_prices, T)
             /\ account'.transactions = account.transactions + Cardinality(T)]_vars

\* C9: an order evaluated at a price strictly above its threshold sells
\* nothing: holding and order keep their quantities and the distance, the
\* order stays, its highest price seen rises to a higher price and is
\* unchanged otherwise; funds and transactions change only through orders at
\* or below their threshold
C9_NoTriggerAboveThreshold ==
    [][last'.op = "update" =>
         LET above == {t \in last'.evaluated :
                          ~AtOrBelowThreshold(Order(account, t), last'.latest_prices[t])}
         IN  /\ \A t \in above :
                   LET o == Order(account, t)
                       p == last'.latest_prices[t]
                   IN  /\ HasOrder(account', t)
                       /\ account'.stocks_owned[t].quantity
                            = account.stocks_owned[t].quantity
                       /\ Order(account', t).quantity = o.quantity
                       /\ Order(account', t).points = o.points
                       /\ Order(account', t).percentage = o.percentage
                       /\ Order(account', t).highest
                            = IF p > o.highest THEN p ELSE o.highest
             /\ above = last'.evaluated =>
                   /\ account'.funds = account.funds
                   /\ account'.transactions = account.transactions]_vars

\* an order evaluated below its highest price seen and still standing
C9_Witness ==
    /\ last.op = "update" /\ err = "none"
    /\ \E t \in last.evaluated :
          /\ HasOrder(account, t)
          /\ Order(account, t).quantity > 0
          /\ Order(account, t).percentage
          /\ account.stocks_owned[t].current_p < Order(account, t).highest

\* C10: original_prices[t] is written once: only an update called with
\* ticker t creates it, from its price table, and no call changes or removes it
C10_OriginalWriteOnce ==
    [][\A t \in Tickers :
         /\ t \in DOMAIN account.original_prices =>
               /\ t \in DOMAIN account'.original_prices
               /\ account'.original_prices[t] = account.original_prices[t]
         /\ (t \notin DOMAIN account.original_prices
               /\ t \in DOMAIN account'.original_prices) =>
               /\ last'.op = "update" /\ last'.ticker = t
               /\ t \in DOMAIN last'.latest_prices
               /\ account'.original_prices[t] = last'.latest_prices[t]]_vars

\* a later update named t again with another price and the first one stayed
C10_Witness ==
    /\ last.op = "update" /\ err = "none"
    /\ last.ticker \in DOMAIN account.original_prices
    /\ last.ticker \in DOMAIN account.latest_prices
    /\ account.original_prices[last.ticker] # account.latest_prices[last.ticker]

\* the worth of the holdings of self, every share at its holding's current
\* price, summed ticker by ticker
RECURSIVE HoldingsWorth(_, _)
HoldingsWorth(self, S) ==
    IF S = {} THEN 0
    ELSE LET t == CHOOSE x \in S : TRUE
         IN  self.stocks_owned[t].quantity * self.stocks_owned[t].current_p
               + HoldingsWorth(self, S \ {t})

\* C11: sell_all always succeeds and leaves no holding; funds grow by the sum
\* over the tickers held before of quantity*current_price - fee, transactions
\* by the number of those tickers, and both price tables stay as they were
C11_SellAllLiquidates ==
    [][last'.op = "sell_all" =>
         /\ err' = "none"
         /\ account'.stocks_owned = EmptyDict
         /\ account'.funds = account.funds + HoldingsWorth(account, Held(account))
                               - account.TRANSACTION_FEE * Cardinality(Held(account))
         /\ account'.transactions = account.transactions + Cardinality(Held(account))
         /\ account'.latest_prices = account.latest_prices
         /\ account'.original_prices = account.original_prices
         /\ account'.initial_funds = account.initial_funds]_vars

\* sell_all has liquidated two holdings, one share at 1 and shares worth 2
C11_Witness ==
    /\ last.op = "sell_all" /\ err = "none"
    /\ account.stocks_owned = EmptyDict
    /\ account.transactions = last.before.transactions + 2
    /\ account.funds = last.before.funds - 2 * TRANSACTION_FEE + 3

\* C12: report and value read only: the account is the same after them;
\* value returns the sum of quantity*current_price over the holdings, and the
\* profit a report prints is funds + that sum - initial_funds
C12_ReportAndValueRead ==
    [][last'.op \in {"report", "value"} =>
         /\ account' = account
         /\ last'.op = "value" =>
               /\ err' = "none"
               /\ last'.result = HoldingsWorth(account, Held(account))
         /\ (last'.op = "report" /\ err' = "none") =>
               last'.result = account.funds + HoldingsWorth(account, Held(account))
                                - account.initial_funds]_vars

\* a report printed the profit of an account that holds several shares of a
\* ticker whose price has moved since they were bought
C12_Witness ==
    /\ last.op = "report" /\ err = "none"
    /\ \E t \in Held(account) :
          /\ account.stocks_owned[t].quantity > 1
          /\ account.stocks_owned[t].current_p # account.stocks_owned[t].bought_p.n
    /\ last.result = account.funds + HoldingsWorth(account, Held(account))
                       - account.initial_funds

\* C13: after a successful update the known prices are exactly the price
\* table given; a ticker still held and in the table has the table's price
\* as current price; a held ticker that is not in the table keeps its
\* holding as it was, order included, and its order is not evaluated
C13_UpdateReplacesPrices ==
    [][(last'.op = "update" /\ err' = "none") =>
         /\ account'.latest_prices = last'.latest_prices
         /\ \A t \in Held(account') :
               t \in DOMAIN last'.latest_prices =>
                  account'.stocks_owned[t].current_p = last'.latest_prices[t]
         /\ \A t \in Held(account) :
               t \notin DOMAIN last'.latest_prices =>
                  /\ t \in Held(account')
                  /\ account'.stocks_owned[t] = account.stocks_owned[t]
                  /\ t \notin last'.evaluated]_vars

\* an update whose table lacks a ticker that is held with an order
C13_Witness ==
    /\ last.op = "update" /\ err = "none"
    /\ \E t \in Held(account) :
          /\ t \notin DOMAIN last.latest_prices
          /\ HasOrder(account, t)
          /\ account.stocks_owned[t].quantity > 0
    /\ account.latest_prices = last.latest_prices

\* C14: a successful trailing_stop on a ticker that has an order merges into
\* it: the quantities add up, the distance is the one given now (divided by
\* 100 when given as a percentage) and the highest price seen stays; on a
\* ticker without an order it creates one with the given quantity and
\* distance and the holding's current price as highest price seen
C14_TrailingStopMerges ==
    [][(last'.op = "trailing_stop" /\ err' = "none") =>
         LET t == last'.ticker
             given == IF last'.percentage THEN 100 ELSE 1
         IN  /\ HasOrder(account', t)
             /\ Order(account', t).points.n * given
                   = last'.points * Order(account', t).points.d
             /\ IF HasOrder(account, t)
                THEN /\ Order(account', t).quantity
                           = Order(account, t).quantity + last'.quantity
                     /\ Order(account', t).highest = Order(account, t).highest
                ELSE /\ Order(account', t).quantity = last'.quantity
                     /\ Order(account', t).highest
                           = account.stocks_owned[t].current_p]_vars

\* one share was merged into an order of one share, with another distance
C14_Witness ==
    /\ last.op = "trailing_stop" /\ err = "none"
    /\ last.quantity = 1
    /\ last.points = 60 /\ last.percentage
    /\ HasOrder(account, last.ticker)
    /\ Order(account, last.ticker).quantity = 2
    /\ Order(account, last.ticker).points = Frac(60, 100)

\* C15: the average cost of a holding that exists before and after a call
\* changes only when the call is a buy of its ticker; no sell, update,
\* trailing_stop, report or value changes it
C15_AverageCostOnlyByBuy ==
    [][\A t \in Held(account) \cap Held(account') :
          account'.stocks_owned[t].bought_p # account.stocks_owned[t].bought_p
             => (last'.op = "buy" /\ last'.ticker = t)]_vars

\* part of a holding was sold at another price than its average cost and the
\* rest still has that average cost
C15_Witness ==
    /\ last.op = "sell" /\ ~last.all /\ err = "none"
    /\ last.quantity > 0
    /\ last.ticker \in Held(account)
    /\ account.stocks_owned[last.ticker].quantity > 0
    /\ account.stocks_owned[last.ticker].bought_p
          # IntNum(account.stocks_owned[last.ticker].current_p)

\* the orders that an update from self to after has executed and removed
ExecutedOrders(self, after, evaluated) ==
    {t \in evaluated : HasOrder(self, t) /\ ~HasOrder(after, t)}

\* C16: trailing_stop is accepted only when funds >= fee, and an accepted
\* placement or merge charges nothing: funds, transactions, both price
\* tables and the holding's quantity, average cost and current price stay,
\* and so does every other holding; the fee is charged once, by the update
\* that executes the order
C16_TrailingStopIsFree ==
    [][/\ (last'.op = "update" /\ err' = "none") =>
            account'.funds = account.funds
               + ExpectedProceeds(account, last'.latest_prices,
                    ExecutedOrders(account, account', last'.evaluated))
       /\ (last'.op = "trailing_stop" /\ err' = "none") =>
         LET t == last'.ticker
         IN  /\ account.funds >= account.TRANSACTION_FEE
             /\ account'.funds = account.funds
             /\ account'.transactions = account.transactions
             /\ account'.initial_funds = account.initial_funds
             /\ account'.latest_prices = account.latest_prices
             /\ account'.original_prices = account.original_prices
             /\ Held(account') = Held(account)
             /\ t \in Held(account)
             /\ account'.stocks_owned[t].quantity = account.stocks_owned[t].quantity
             /\ account'.stocks_owned[t].bought_p = account.stocks_owned[t].bought_p
             /\ account'.stocks_owned[t].current_p = account.stocks_owned[t].current_p
             /\ \A u \in Held(account) \ {t} :
                   account'.stocks_owned[u] = account.stocks_owned[u]]_vars

\* an order for a share was placed by an account that had little more than the
\* fee left after its buys
C16_Witness ==
    /\ last.op = "trailing_stop" /\ err = "none"
    /\ last.quantity > 0
    /\ account.funds <= TRANSACTION_FEE + 1
    /\ account.funds = last.before.funds
    /\ account.transactions = last.before.transactions
    /\ HasOrder(account, last.ticker)

\* C17: between calls every held ticker that is in latest_prices has that
\* price as its current price
C17_CurrentPriceIsLatest ==
    err = "none" =>
       \A t \in Held(account) \cap DOMAIN account.latest_prices :
          account.stocks_owned[t].current_p = account.latest_prices[t]

\* an update gave a holding of one share or more a price other than the one
\* it was bought at
C17_Witness ==
    /\ last.op = "update" /\ err = "none"
    /\ \E t \in Held(account) \cap DOMAIN account.latest_prices :
          /\ account.stocks_owned[t].quantity > 0
          /\ account.stocks_owned[t].bought_p # IntNum(account.latest_prices[t])
          /\ account.stocks_owned[t].current_p = account.latest_prices[t]

\* funds plus the worth of the holdings
NetWorth(self) == self.funds + HoldingsWorth(self, Held(self))

\* C18: a trade costs one fee in net worth: a successful buy and a successful
\* manual sell change funds + value by -fee, sell_all by -fee for each
\* holding, trailing_stop by 0; and transactions counts the trades: one more
\* for each successful buy and manual sell, one for each holding that
\* sell_all liquidates, one for each order that an update executes, and no
\* other call counts
C18_OneFeePerTrade ==
    [][err' = "none" =>
         /\ last'.op \in {"buy", "sell"} =>
               /\ NetWorth(account') = NetWorth(account) - account.TRANSACTION_FEE
               /\ account'.transactions = account.transactions + 1
         /\ last'.op = "sell_all" =>
               /\ NetWorth(account') = NetWorth(account)
                     - account.TRANSACTION_FEE * Cardinality(Held(account))
               /\ account'.transactions
                     = account.transactions + Cardinality(Held(account))
         /\ last'.op = "trailing_stop" =>
               /\ NetWorth(account') = NetWorth(account)
               /\ account'.transactions = account.transactions
         /\ last'.op = "update" =>
               account'.transactions = account.transactions
                  + Cardinality(ExecutedOrders(account, account', last'.evaluated))
         /\ last'.op \in {"report", "value"} =>
               account'.transactions = account.transactions]_vars

\* after an update and two buys two shares were sold by hand, and the
\* account has paid three fees
C18_Witness ==
    /\ calls = 4 /\ last.op = "sell" /\ err = "none"
    /\ last.quantity = 2
    /\ account.transactions = 3
    /\ NetWorth(account) = InitialFunds - 3 * TRANSACTION_FEE

\* C19: the threshold at which an order is evaluated follows the call that
\* gave its distance last: after a trailing_stop call with distance d it is
\* highest - highest*(d/100) when that call gave a percentage and
\* highest - d when it did not, merges included (orders of one share or more)
C19_ThresholdFollowsLastCall ==
    (/\ last.op = "trailing_stop" /\ err = "none"
     /\ Order(account, last.ticker).quantity > 0) =>
       LET o == Order(account, last.ticker)
           limit == bottom_limit(o)
       IN  IF last.percentage
           THEN limit.n * 100 = (o.highest * 100 - o.highest * last.points) * limit.d
           ELSE limit.n = (o.highest - last.points) * limit.d

\* the calls that C20 is about: every call that changes the account but
\* sell_all
NextTrades == Update \/ Buy \/ Sell \/ SellTicker \/ TrailingStop

SpecTrades == Init /\ [][NextTrades]_vars

\* C20: without sell_all, funds that are >= 0 stay >= 0: no update, buy,
\* trailing_stop or sell of one share or more that returns leaves them
\* negative, also when the sale is worth less than the fee
C20_FundsStayNonNegative ==
    [][(/\ err' = "none"
        /\ account.funds >= 0
        /\ last'.op = "sell" => /\ last'.before.quantity > 0
                                /\ last'.all \/ last'.quantity > 0)
          => account'.funds >= 0]_vars
====
